---- MODULE Spec2Model ----
(***************************************************************************)
(* A model of dyelog's lexicon-matching engine:                            *)
(*   dyelog/utils.py               PatternMatcher (char_sets,              *)
(*                                 preprocess_words, parse_pattern,        *)
(*                                 find_matches)                           *)
(*   dyelog/utils/find_pattern.py  find_pattern                            *)
(* Python strings are sequences of one-character strings, so that strip,   *)
(* upper, split and join are computed character by character.              *)
(***************************************************************************)
EXTENDS Integers, Sequences, FiniteSets, TLC

VARIABLES char_sets, words_by_length, op, loaded, loaders, finder

vars == <<char_sets, words_by_length, op, loaded, loaders, finder>>

(***************************************************************************)
(* Bounds of the explored inputs.                                          *)
(***************************************************************************)
\* the longest pattern handed to parse_pattern / find_matches, in tokens
MaxTokens == 2
\* the largest min_length handed to preprocess_words
MaxMinLength == 2
\* the longest word handed to find_pattern, in characters
MaxWordLen == 2

(***************************************************************************)
(* Python str primitives.                                                  *)
(***************************************************************************)
Letters ==
    {"A", "B", "C", "D", "E", "F", "G", "H", "I", "J", "K", "L", "M",
     "N", "O", "P", "Q", "R", "S", "T", "U", "V", "W", "X", "Y", "Z"}

\* set("ABCDEF") and the like: the characters of a string literal
SetOf(s) == {s[i] : i \in 1..Len(s)}

\* the characters str.strip() and str.split() treat as whitespace
Whitespace == {" ", "\t", "\n"}

LowerCase ==
    <<"a", "b", "c", "d", "e", "f", "g", "h", "i", "j", "k", "l", "m",
      "n", "o", "p", "q", "r", "s", "t", "u", "v", "w", "x", "y", "z">>

UpperCase ==
    <<"A", "B", "C", "D", "E", "F", "G", "H", "I", "J", "K", "L", "M",
      "N", "O", "P", "Q", "R", "S", "T", "U", "V", "W", "X", "Y", "Z">>

\* str.upper() of one character: the full case mapping, under which the
\* German sharp s becomes the two characters "SS"
UpperChar(c) ==
    IF \E i \in 1..Len(LowerCase) : LowerCase[i] = c
    THEN <<UpperCase[CHOOSE i \in 1..Len(LowerCase) : LowerCase[i] = c]>>
    ELSE IF c = "ß" THEN <<"S", "S">>
    ELSE <<c>>

RECURSIVE Upper(_)
\* str.upper()
Upper(s) == IF s = <<>> THEN <<>> ELSE UpperChar(Head(s)) \o Upper(Tail(s))

RECURSIVE LStrip(_)
LStrip(s) ==
    IF s # <<>> /\ Head(s) \in Whitespace THEN LStrip(Tail(s)) ELSE s

RECURSIVE RStrip(_)
RStrip(s) ==
    IF s # <<>> /\ s[Len(s)] \in Whitespace
    THEN RStrip(SubSeq(s, 1, Len(s) - 1))
    ELSE s

\* str.strip()
Strip(s) == RStrip(LStrip(s))

RECURSIVE SplitFrom(_, _, _)
\* str.split() without arguments: cut at runs of whitespace, no empty parts.
\* cur is the part being read, parts the parts read so far.
SplitFrom(s, cur, parts) ==
    IF s = <<>>
    THEN IF cur = <<>> THEN parts ELSE Append(parts, cur)
    ELSE IF Head(s) \in Whitespace
         THEN SplitFrom(Tail(s), <<>>,
                        IF cur = <<>> THEN parts ELSE Append(parts, cur))
         ELSE SplitFrom(Tail(s), Append(cur, Head(s)), parts)

Split(s) == SplitFrom(s, <<>>, <<>>)

RECURSIVE Join(_, _)
\* sep.join(parts)
Join(sep, parts) ==
    IF parts = <<>> THEN <<>>
    ELSE IF Len(parts) = 1 THEN parts[1]
    ELSE parts[1] \o sep \o Join(sep, Tail(parts))

(***************************************************************************)
(* The class tables.  A dict is a sequence of (key, value) entries, which  *)
(* keeps the insertion order that dict.items() iterates in.                *)
(***************************************************************************)
\* char_sets with the letter M left out of G-M
CharSetsGap ==
    << [name |-> <<"A", "-", "F">>, chars |-> SetOf(<<"A", "B", "C", "D", "E", "F">>)],
       [name |-> <<"G", "-", "M">>, chars |-> SetOf(<<"G", "H", "I", "J", "K", "L">>)],
       [name |-> <<"N", "-", "T">>, chars |-> SetOf(<<"N", "O", "P", "Q", "R", "S", "T">>)],
       [name |-> <<"U", "-", "Z">>, chars |-> SetOf(<<"U", "V", "W", "X", "Y", "Z">>)] >>

\* PatternMatcher.__init__: self.char_sets
CharSets ==
    << [name |-> <<"A", "-", "F">>, chars |-> SetOf(<<"A", "B", "C", "D", "E", "F">>)],
       [name |-> <<"G", "-", "M">>, chars |-> SetOf(<<"G", "H", "I", "J", "K", "L", "M">>)],
       [name |-> <<"N", "-", "T">>, chars |-> SetOf(<<"N", "O", "P", "Q", "R", "S", "T">>)],
       [name |-> <<"U", "-", "Z">>, chars |-> SetOf(<<"U", "V", "W", "X", "Y", "Z">>)] >>

\* find_pattern: the local table sets
sets ==
    << [name |-> <<"A", "-", "F">>, chars |-> SetOf(<<"A", "B", "C", "D", "E", "F">>)],
       [name |-> <<"G", "-", "M">>, chars |-> SetOf(<<"G", "H", "I", "J", "K", "L", "M">>)],
       [name |-> <<"N", "-", "T">>, chars |-> SetOf(<<"N", "O", "P", "Q", "R", "S", "T">>)],
       [name |-> <<"U", "-", "Z">>, chars |-> SetOf(<<"U", "V", "W", "X", "Y", "Z">>)] >>

\* key in dict
HasKey(table, key) == \E i \in 1..Len(table) : table[i].name = key

\* dict[key], for a key of the dict
Lookup(table, key) ==
    table[CHOOSE i \in 1..Len(table) : table[i].name = key].chars

(***************************************************************************)
(* The word sources.  A file is the sequence of its lines as iteration     *)
(* over the open file yields them, each with its line terminator (the last *)
(* line may lack it); a path that cannot be opened has no entry.           *)
(***************************************************************************)
\* dyelog.settings: settings.words_file
words_file == "data/words_alpha.txt"

FileSystem ==
    [ f \in {"data/words_alpha.txt", "sample.txt"} |->
        IF f = "data/words_alpha.txt"
        THEN << <<"A", "N", "\n">>, <<"N", "A", "\n">>, <<"A", "\n">>,
                <<"a", "n", "\n">>, <<" ", "A", "N", "\t", "\n">>,
                <<"A", "N", "T", "\n">>, <<"A", "A", "\n">> >>
        ELSE << <<"N", "O", "\n">>, <<"\n">>, <<"A", "1", "\n">>,
                <<"ß", "\n">>, <<"N", "\n">>, <<"B", "\n">>,
                <<"A", "N">> >> ]

\* the paths handed to PatternMatcher and preprocess_words; the last one
\* does not exist
Paths == DOMAIN FileSystem \cup {"missing.txt"}

\* an optional argument is the empty set (None) or a singleton
Optional(S) == {{}} \cup {{x} : x \in S}

(***************************************************************************)
(* PatternMatcher                                                          *)
(***************************************************************************)
\* defaultdict(list)
EmptyBuckets == [k \in {} |-> <<>>]

\* d[key] of a defaultdict(list): the dict after the access, which inserts
\* an empty list under a key that is missing
Touch(d, key) ==
    IF key \in DOMAIN d THEN d ELSE [k \in DOMAIN d \cup {key} |->
                                        IF k = key THEN <<>> ELSE d[k]]

\* d[key].append(word)
AppendTo(d, key, word) == [Touch(d, key) EXCEPT ![key] = Append(@, word)]

\* the test of line 41 with > in the place of >=
KeepsStrict(min_length, word) ==
    min_length = {} \/ \A k \in min_length : Len(word) > k

\* the test of line 41: min_length is None or len(word) >= min_length
Keeps(min_length, word) ==
    min_length = {} \/ \A k \in min_length : Len(word) >= k

RECURSIVE ReadWordsRawLen(_, _, _)
\* ReadWords with the bucket chosen by the length of the line as read
ReadWordsRawLen(lines, min_length, d) ==
    IF lines = <<>> THEN d
    ELSE LET word == Upper(Strip(Head(lines)))
         IN  ReadWordsRawLen(Tail(lines), min_length,
                             IF Keeps(min_length, word)
                             THEN AppendTo(d, Len(Head(lines)), word)
                             ELSE d)

RECURSIVE ReadWords(_, _, _)
\* the loop of preprocess_words over the lines of the open file
ReadWords(lines, min_length, d) ==
    IF lines = <<>> THEN d
    ELSE LET word == Upper(Strip(Head(lines)))
         IN  ReadWords(Tail(lines), min_length,
                       IF Keeps(min_length, word)
                       THEN AppendTo(d, Len(word), word)
                       ELSE d)

\* line 35: the path that is opened
ResolveFile(file) == IF file = {} THEN words_file ELSE CHOOSE f \in file : TRUE

\* preprocess_words without line 33: the words are appended to the dict
\* that is already there
preprocess_words_keep(d, min_length, file) ==
    LET path == ResolveFile(file)
    IN  IF path \notin DOMAIN FileSystem
        THEN [status |-> "OSError", d |-> d]
        ELSE [status |-> "ok", d |-> ReadWords(FileSystem[path], min_length, d)]

\* preprocess_words(min_length, file) as a function of the dict it starts
\* from: the outcome and the value of self.words_by_length it leaves
preprocess_words(d, min_length, file) ==
    LET fresh == EmptyBuckets
        path  == ResolveFile(file)
    IN  IF path \notin DOMAIN FileSystem
        THEN [status |-> "OSError", d |-> fresh]
        ELSE [status |-> "ok",
              d |-> ReadWords(FileSystem[path], min_length, fresh)]

RECURSIVE ResolvePartsSkip(_, _, _)
\* ResolveParts leaving out the parts that are no key
ResolvePartsSkip(table, parts, done) ==
    IF parts = <<>> THEN [status |-> "ok", value |-> done]
    ELSE IF ~HasKey(table, Strip(Head(parts)))
         THEN ResolvePartsSkip(table, Tail(parts), done)
         ELSE ResolvePartsSkip(table, Tail(parts),
                  Append(done, Lookup(table, Strip(Head(parts)))))

RECURSIVE ResolveParts(_, _, _)
\* the list comprehension of parse_pattern: char_sets[part.strip()] for
\* each part, KeyError at the first part that is no key; done is the list
\* built so far
ResolveParts(table, parts, done) ==
    IF parts = <<>> THEN [status |-> "ok", value |-> done]
    ELSE IF ~HasKey(table, Strip(Head(parts)))
         THEN [status |-> "KeyError", value |-> <<>>]
         ELSE ResolveParts(table, Tail(parts),
                           Append(done, Lookup(table, Strip(Head(parts)))))

parse_pattern(table, pattern_str) ==
    ResolveParts(table, Split(pattern_str), <<>>)

\* WordMatches with any() in the place of all()
WordMatchesAny(pattern_sets, word) ==
    IF \E i \in 1..Len(word) :
          i <= Len(pattern_sets) /\ word[i] \in pattern_sets[i]
    THEN "yes"
    ELSE "no"

\* line 64: all(letter in pattern_sets[i] for i, letter in enumerate(word)).
\* The letters are tested in order up to the first that fails; a letter
\* beyond the end of pattern_sets raises IndexError.
WordMatches(pattern_sets, word) ==
    IF \A i \in 1..Len(word) :
          i <= Len(pattern_sets) /\ word[i] \in pattern_sets[i]
    THEN "yes"
    ELSE IF \E i \in 1..Len(word) :
               /\ i > Len(pattern_sets)
               /\ \A j \in 1..(i - 1) : word[j] \in pattern_sets[j]
         THEN "IndexError"
         ELSE "no"

RECURSIVE Scan(_, _, _)
\* the loop of find_matches over candidate_words; matches is the list
\* built so far
Scan(pattern_sets, candidate_words, matches) ==
    IF candidate_words = <<>> THEN [status |-> "ok", value |-> matches]
    ELSE IF WordMatches(pattern_sets, Head(candidate_words)) = "IndexError"
         THEN [status |-> "IndexError", value |-> <<>>]
         ELSE Scan(pattern_sets, Tail(candidate_words),
                   IF WordMatches(pattern_sets, Head(candidate_words)) = "yes"
                   THEN Append(matches, Head(candidate_words))
                   ELSE matches)

\* find_matches(pattern_str): the outcome, the list returned and the value
\* of self.words_by_length it leaves
find_matches(table, d, pattern_str) ==
    LET parsed == parse_pattern(table, pattern_str)
    IN  IF parsed.status # "ok"
        THEN [status |-> parsed.status, value |-> <<>>, d |-> d]
        ELSE LET pattern_length == Len(parsed.value)
                 after == Touch(d, pattern_length)
                 scanned == Scan(parsed.value, after[pattern_length], <<>>)
             IN  [status |-> scanned.status, value |-> scanned.value,
                  d |-> after]

(***************************************************************************)
(* find_pattern                                                            *)
(***************************************************************************)
\* the inner loop of find_pattern: the index of the first entry of the
\* table whose set holds the letter, 0 when there is none (found = False)
FirstSet(table, letter) ==
    IF \E i \in 1..Len(table) : letter \in table[i].chars
    THEN CHOOSE i \in 1..Len(table) :
            /\ letter \in table[i].chars
            /\ \A j \in 1..(i - 1) : letter \notin table[j].chars
    ELSE 0

RECURSIVE PatternParts(_, _, _)
\* the outer loop of find_pattern over the letters of word.upper();
\* pattern_parts is the list built so far
PatternParts(table, word, pattern_parts) ==
    IF word = <<>> THEN [status |-> "ok", value |-> pattern_parts]
    ELSE IF FirstSet(table, Head(word)) = 0
         THEN [status |-> "ValueError", value |-> <<>>]
         ELSE PatternParts(table, Tail(word),
                  Append(pattern_parts,
                         table[FirstSet(table, Head(word))].name))

\* find_pattern with the labels joined without a separator
find_pattern_nosep(word) ==
    IF word = <<>> THEN [status |-> "ok", value |-> <<>>]
    ELSE LET parts == PatternParts(sets, Upper(word), <<>>)
         IN  IF parts.status # "ok" THEN parts
             ELSE [status |-> "ok", value |-> Join(<<>>, parts.value)]

find_pattern(word) ==
    IF word = <<>> THEN [status |-> "ok", value |-> <<>>]
    ELSE LET parts == PatternParts(sets, Upper(word), <<>>)
         IN  IF parts.status # "ok" THEN parts
             ELSE [status |-> "ok", value |-> Join(<<" ">>, parts.value)]

(***************************************************************************)
(* The inputs explored.                                                    *)
(***************************************************************************)
\* all sequences over S of length at most n
SeqUpTo(S, n) == UNION {[1..k -> S] : k \in 0..n}

\* what patterns are written from: a class label, a class label with
\* whitespace around it, a token that is no label, and a single letter
Tokens ==
    {<<"A", "-", "F">>, <<"\t", "N", "-", "T", " ">>, <<"Z", "Z">>, <<"A">>}

\* the characters of the words handed to find_pattern
WordChars == {"A", "N", "a", "z", "1", " ", "ß"}

Words == SeqUpTo(WordChars, MaxWordLen)

\* the pattern strings handed to parse_pattern and find_matches: tokens
\* joined by single spaces, and the strings find_pattern returns for the
\* words written in capital letters
PatternStrings ==
    {Join(<<" ">>, tokens) : tokens \in SeqUpTo(Tokens, MaxTokens)}
        \cup {find_pattern(word).value : word \in Words \cap Seq(Letters)}

MinLengths == Optional(1..MaxMinLength)

\* class labels as written, in lower case and in mixed case
CaseTokens ==
    {<<"A", "-", "F">>, <<"a", "-", "f">>, <<"A", "-", "f">>,
     <<"N", "-", "T">>, <<"n", "-", "t">>, <<"G", "-", "M">>,
     <<"u", "-", "z">>}

\* the pattern strings of the calls of parse_pattern that differ in case
CasePatternStrings ==
    {Join(<<" ">>, tokens) : tokens \in SeqUpTo(CaseTokens, MaxTokens)}

(***************************************************************************)
(* The state machine: one PatternMatcher object and the calls made on it,  *)
(* and, as a specification of its own, the calls of the module-level       *)
(* function find_pattern, which reads nothing of the object.               *)
(* op records the last call: its name, its arguments, its outcome, the     *)
(* value it returned, and what words_by_length and loaded were when it was *)
(* made.  loaded records the successful load that the buckets come from    *)
(* (the path, the minimum length and the dict it left), and is empty after *)
(* a load that failed.                                                     *)
(***************************************************************************)
NoArg == <<>>

Call(name, file, min_length, text, status, value, before, from) ==
    [name |-> name, file |-> file, min_length |-> min_length, text |-> text,
     status |-> status, value |-> value, before |-> before, from |-> from]

\* the threads that call preprocess_words on the one object
Loaders == {1, 2}

\* a thread that is not in preprocess_words
IdleLoader == [pc |-> "idle", file |-> {}, min_length |-> {}, lines |-> <<>>]

\* a thread that is not in find_matches
IdleFinder ==
    [pc |-> "idle", text |-> <<>>, pattern_sets |-> <<>>, live |-> FALSE,
     key |-> 0, list |-> <<>>, next |-> 1, matches |-> <<>>, status |-> "ok"]

\* PatternMatcher(file): char_sets is set, then the file is loaded without
\* a minimum length; the object exists only if that load succeeded
Init ==
    \E file \in Optional(Paths) :
        \E r \in {preprocess_words(EmptyBuckets, {}, file)} :
            /\ r.status = "ok"
            /\ char_sets = CharSets
            /\ words_by_length = r.d
            /\ op = Call("__init__", file, {}, NoArg, "ok", NoArg, EmptyBuckets, {})
            /\ loaded = {[file |-> ResolveFile(file), min_length |-> {}, d |-> r.d]}
            /\ loaders = [t \in Loaders |-> IdleLoader]
            /\ finder = IdleFinder

PreprocessWords ==
    \E file \in Optional(Paths), min_length \in MinLengths :
        \E r \in {preprocess_words(words_by_length, min_length, file)} :
            /\ words_by_length' = r.d
            /\ op' = Call("preprocess_words", file, min_length, NoArg,
                          r.status, NoArg, words_by_length, loaded)
            /\ loaded' = IF r.status = "ok"
                         THEN {[file |-> ResolveFile(file),
                                min_length |-> min_length, d |-> r.d]}
                         ELSE {}
            /\ UNCHANGED <<char_sets, loaders, finder>>

ParsePattern ==
    \E pattern_str \in PatternStrings :
        \E r \in {parse_pattern(char_sets, pattern_str)} :
            /\ op' = Call("parse_pattern", {}, {}, pattern_str, r.status,
                          r.value, words_by_length, loaded)
            /\ UNCHANGED <<char_sets, words_by_length, loaded, loaders, finder>>

FindMatches ==
    \E pattern_str \in PatternStrings :
        \E r \in {find_matches(char_sets, words_by_length, pattern_str)} :
            /\ words_by_length' = r.d
            /\ op' = Call("find_matches", {}, {}, pattern_str, r.status,
                          r.value, words_by_length, loaded)
            /\ UNCHANGED <<char_sets, loaded, loaders, finder>>

FindPattern ==
    \E word \in Words :
        \E r \in {find_pattern(word)} :
            /\ op' = Call("find_pattern", {}, {}, word, r.status, r.value,
                          words_by_length, loaded)
            /\ UNCHANGED <<char_sets, words_by_length, loaded, loaders, finder>>

Next == PreprocessWords \/ ParsePattern \/ FindMatches

Spec == Init /\ [][Next]_vars

\* parse_pattern on the pattern strings written in either case
ParsePatternCase ==
    \E pattern_str \in CasePatternStrings :
        \E r \in {parse_pattern(char_sets, pattern_str)} :
            /\ op' = Call("parse_pattern", {}, {}, pattern_str, r.status,
                          r.value, words_by_length, loaded)
            /\ UNCHANGED <<char_sets, words_by_length, loaded, loaders, finder>>

NextParse == ParsePatternCase

SpecParse == Init /\ [][NextParse]_vars

(***************************************************************************)
(* Calls that overlap in time.  The object has no lock, so the statements  *)
(* of a preprocess_words call of one thread interleave with those of       *)
(* another thread's preprocess_words or find_matches.  loaders[t] is the   *)
(* call of loader thread t: the lines it has still to read.  finder is the *)
(* find_matches call of the searching thread: candidate_words is a         *)
(* reference to a list, which is the bucket finder.key of the current dict *)
(* while finder.live, and the list finder.list of a dict that has been     *)
(* replaced since otherwise; finder.next is the position of the for loop.  *)
(***************************************************************************)
\* lines 33-38 of preprocess_words: self.words_by_length is bound to a new
\* defaultdict and the file is opened; a list of the dict that was there
\* stays as it is for the search that holds it
LoadBegin(t) ==
    \E file \in DOMAIN FileSystem, min_length \in MinLengths :
        /\ loaders[t].pc = "idle"
        /\ words_by_length' = EmptyBuckets
        /\ loaders' = [loaders EXCEPT ![t] =
                          [pc |-> IF FileSystem[file] = <<>> THEN "done" ELSE "read",
                           file |-> {file}, min_length |-> min_length,
                           lines |-> FileSystem[file]]]
        /\ finder' = IF finder.live
                      THEN [finder EXCEPT !.live = FALSE,
                                          !.list = words_by_length[finder.key]]
                      ELSE finder
        /\ UNCHANGED <<char_sets, op, loaded>>

\* lines 39-42 of preprocess_words: one turn of the loop, which appends to
\* the dict self.words_by_length is bound to at that moment
LoadLine(t) ==
    /\ loaders[t].pc = "read"
    /\ words_by_length' =
          ReadWords(<<Head(loaders[t].lines)>>, loaders[t].min_length,
                    words_by_length)
    /\ loaders' = [loaders EXCEPT
                      ![t].lines = Tail(@),
                      ![t].pc = IF Tail(loaders[t].lines) = <<>>
                                THEN "done" ELSE "read"]
    /\ UNCHANGED <<char_sets, op, loaded, finder>>

\* lines 55-60 of find_matches: the pattern is parsed and candidate_words
\* is bound to the bucket of its length in the current dict
FindBegin ==
    \E pattern_str \in PatternStrings :
        \E r \in {parse_pattern(char_sets, pattern_str)} :
            /\ finder.pc = "idle"
            /\ IF r.status # "ok"
               THEN /\ finder' = [finder EXCEPT !.pc = "done",
                                                !.text = pattern_str,
                                                !.status = r.status]
                    /\ UNCHANGED words_by_length
               ELSE /\ words_by_length' = Touch(words_by_length, Len(r.value))
                    /\ finder' = [finder EXCEPT !.pc = "scan",
                                                !.text = pattern_str,
                                                !.pattern_sets = r.value,
                                                !.live = TRUE,
                                                !.key = Len(r.value)]
            /\ UNCHANGED <<char_sets, op, loaded, loaders>>

\* the list candidate_words refers to, as it is now
CandidateWords ==
    IF finder.live THEN words_by_length[finder.key] ELSE finder.list

\* lines 63-67 of find_matches: one turn of the for loop over
\* candidate_words, or the return when the list has no further word
FindStep ==
    /\ finder.pc = "scan"
    /\ IF finder.next > Len(CandidateWords)
       THEN finder' = [finder EXCEPT !.pc = "done"]
       ELSE \E m \in {WordMatches(finder.pattern_sets,
                                  CandidateWords[finder.next])} :
               finder' =
                   IF m = "IndexError"
                   THEN [finder EXCEPT !.pc = "done", !.status = m,
                                       !.matches = <<>>]
                   ELSE [finder EXCEPT
                            !.next = @ + 1,
                            !.matches = IF m = "yes"
                                        THEN Append(@, CandidateWords[finder.next])
                                        ELSE @]
    /\ UNCHANGED <<char_sets, words_by_length, op, loaded, loaders>>

\* a search of one thread while another thread loads
NextSearchAndLoad == LoadBegin(1) \/ LoadLine(1) \/ FindBegin \/ FindStep

SpecSearchAndLoad == Init /\ [][NextSearchAndLoad]_vars

\* loads of two threads
NextTwoLoads == \E t \in Loaders : LoadBegin(t) \/ LoadLine(t)

SpecTwoLoads == Init /\ [][NextTwoLoads]_vars

NextPattern == FindPattern

SpecPattern == Init /\ [][NextPattern]_vars

(***************************************************************************)
(* Vocabulary of the properties.                                           *)
(***************************************************************************)
Range(seq) == {seq[i] : i \in 1..Len(seq)}

\* the bucket of length n, empty when nothing is stored under n
Bucket(d, n) == IF n \in DOMAIN d THEN d[n] ELSE <<>>

\* the words of a source: its lines trimmed and uppercased, in file order
WordsOf(path) ==
    [i \in 1..Len(FileSystem[path]) |-> Upper(Strip(FileSystem[path][i]))]

\* the source has a line that reads w
SourceHas(path, w) ==
    \E i \in 1..Len(FileSystem[path]) :
        FileSystem[path][i] \in {w, w \o <<"\n">>}

\* the buckets a source and a minimum length determine: a bucket for each
\* length of a word that is kept, holding the kept words of that length in
\* file order
BucketsOf(path, min_length) ==
    LET kept(w) == Keeps(min_length, w)
    IN  [n \in {Len(w) : w \in {v \in Range(WordsOf(path)) : kept(v)}} |->
            LET ofLength(w) == kept(w) /\ Len(w) = n
            IN  SelectSeq(WordsOf(path), ofLength)]

FoundOk == op.name = "find_matches" /\ op.status = "ok"

LoadedOk == op.name = "preprocess_words" /\ op.status = "ok"

(***************************************************************************)
(* C1: when every token of the pattern string is a class label,            *)
(* find_matches returns the bucket of the words of length n (n the number  *)
(* of tokens) filtered to the words whose letter at every position i is in *)
(* the class of token i: in bucket order, duplicates kept, nothing cut.    *)
(***************************************************************************)
C1_ExactFilter ==
    FoundOk =>
        LET tokens == Split(op.text)
            n == Len(tokens)
            fits(w) == /\ Len(w) = n
                       /\ \A i \in 1..n : w[i] \in Lookup(char_sets, tokens[i])
        IN  op.value = SelectSeq(Bucket(words_by_length, n), fits)

\* a search that returned a word twice and left words of the bucket out
C1_Witness ==
    /\ FoundOk
    /\ Len(Split(op.text)) = 2
    /\ \E i, j \in 1..Len(op.value) : i # j /\ op.value[i] = op.value[j]
    /\ Range(Bucket(words_by_length, 2)) \ Range(op.value) # {}

(***************************************************************************)
(* C2: every word find_matches returns is exactly as long as the pattern   *)
(* string has tokens.                                                      *)
(***************************************************************************)
C2_LengthOfMatches ==
    FoundOk => \A w \in Range(op.value) : Len(w) = Len(Split(op.text))

\* a search that returned words while the lexicon holds shorter and longer
\* ones
C2_Witness ==
    /\ FoundOk
    /\ op.value # <<>>
    /\ \E m, n \in DOMAIN words_by_length :
          /\ m < Len(Split(op.text)) /\ words_by_length[m] # <<>>
          /\ n > Len(Split(op.text)) /\ words_by_length[n] # <<>>

(***************************************************************************)
(* C3: round trip.  As claimed: for every non-empty word W of letters A-Z  *)
(* and every lexicon loaded from a source that contains W,                 *)
(* find_matches(find_pattern(W)) contains W.                               *)
(***************************************************************************)
C3_RoundTripAnyLoad ==
    \A W \in Words \cap Seq(Letters), l \in loaded :
        (/\ W # <<>>
         /\ SourceHas(l.file, W)
         /\ op.name = "find_matches"
         /\ op.text = find_pattern(W).value)
            => op.status = "ok" /\ W \in Range(op.value)

(***************************************************************************)
(* C3 as amended: for every non-empty word W of letters A-Z and every      *)
(* lexicon loaded from a source that contains W without a minimum length,  *)
(* or with a minimum length of at most len(W),                             *)
(* find_matches(find_pattern(W)) contains W.                               *)
(***************************************************************************)
C3_RoundTrip ==
    \A W \in Words \cap Seq(Letters), l \in loaded :
        (/\ W # <<>>
         /\ SourceHas(l.file, W)
         /\ Keeps(l.min_length, W)
         /\ op.name = "find_matches"
         /\ op.text = find_pattern(W).value)
            => op.status = "ok" /\ W \in Range(op.value)

\* find_matches was handed the pattern of a two-letter word of the source
\* whose letters are of two classes, after a load with a minimum length
C3_Witness ==
    \E W \in Words \cap Seq(Letters), l \in loaded :
        /\ Len(W) = 2 /\ find_pattern(W).value # find_pattern(<<W[2], W[1]>>).value
        /\ SourceHas(l.file, W)
        /\ l.min_length # {} /\ Keeps(l.min_length, W)
        /\ op.name = "find_matches"
        /\ op.text = find_pattern(W).value
        /\ W \in Range(op.value)

(***************************************************************************)
(* C4: a successful load replaces the bucket map by the one its source and *)
(* minimum length determine, whatever the map held before; a load of the   *)
(* source and minimum length of the load before it leaves the same map.    *)
(***************************************************************************)
C4_LoadReplaces ==
    LoadedOk =>
        /\ words_by_length = BucketsOf(ResolveFile(op.file), op.min_length)
        /\ \A l \in op.from :
              (l.file = ResolveFile(op.file) /\ l.min_length = op.min_length)
                  => words_by_length = l.d

\* a source that holds a word three times was loaded twice running, with a
\* search in between that left an empty bucket behind
C4_Witness ==
    /\ LoadedOk
    /\ \E l \in op.from :
          /\ l.file = ResolveFile(op.file) /\ l.min_length = op.min_length
          /\ op.before # l.d
          /\ \E n \in DOMAIN l.d : Len(l.d[n]) > Cardinality(Range(l.d[n])) + 1

(***************************************************************************)
(* C5: a load that fails because the source cannot be read leaves the      *)
(* bucket map as it was before the call.                                   *)
(***************************************************************************)
C5_FailAtomic ==
    (op.name = "preprocess_words" /\ op.status # "ok")
        => words_by_length = op.before

(***************************************************************************)
(* C6: when a token of the pattern string is no label of the class table,  *)
(* parse_pattern and find_matches fail with KeyError (UnknownClass),       *)
(* wherever the token stands; nothing is returned and the bucket map is    *)
(* as it was before the call.                                              *)
(***************************************************************************)
C6_UnknownClass ==
    (/\ op.name \in {"parse_pattern", "find_matches"}
     /\ \E i \in 1..Len(Split(op.text)) : ~HasKey(char_sets, Split(op.text)[i]))
        => /\ op.status = "KeyError"
           /\ op.value = <<>>
           /\ words_by_length = op.before

\* find_matches failed on a pattern whose first token is a label and whose
\* second is not, while the lexicon holds words of length two
C6_Witness ==
    /\ op.name = "find_matches"
    /\ op.status = "KeyError"
    /\ Len(Split(op.text)) = 2
    /\ HasKey(char_sets, Split(op.text)[1])
    /\ ~HasKey(char_sets, Split(op.text)[2])
    /\ Bucket(words_by_length, 2) # <<>>

(***************************************************************************)
(* C7: find_pattern returns the empty string for the empty word; for a     *)
(* non-empty word it returns one label per letter, in letter order, joined *)
(* by single spaces, the label of a letter being the first class that      *)
(* holds the uppercased letter; it fails with ValueError (UnmappedLetter)  *)
(* when a letter belongs to no class.                                      *)
(***************************************************************************)
C7_FindPattern ==
    op.name = "find_pattern" =>
        LET word == op.text
            mapped(c) == /\ Len(UpperChar(c)) = 1
                         /\ \E i \in 1..Len(sets) : UpperChar(c)[1] \in sets[i].chars
            label(c) == sets[FirstSet(sets, UpperChar(c)[1])].name
        IN  IF word = <<>> THEN op.status = "ok" /\ op.value = <<>>
            ELSE IF \A i \in 1..Len(word) : mapped(word[i])
                 THEN /\ op.status = "ok"
                      /\ op.value =
                            Join(<<" ">>, [i \in 1..Len(word) |-> label(word[i])])
                 ELSE op.status = "ValueError"

(***************************************************************************)
(* C8: for a word W of the lexicon, find_matches on the pattern of W's own *)
(* letters, each a single-letter label, succeeds, returns W and returns no *)
(* word that differs from W.                                               *)
(***************************************************************************)
C8_SingletonLabels ==
    LET tokens == Split(op.text)
        W == [i \in 1..Len(tokens) |-> tokens[i][1]]
    IN  (/\ op.name = "find_matches"
         /\ tokens # <<>>
         /\ \A i \in 1..Len(tokens) :
               Len(tokens[i]) = 1 /\ tokens[i][1] \in Letters
         /\ W \in Range(Bucket(op.before, Len(W))))
            => /\ op.status = "ok"
               /\ W \in Range(op.value)
               /\ \A v \in Range(op.value) : v = W

(***************************************************************************)
(* C9: the class table of the matcher is a partition of the alphabet: the  *)
(* four classes A-F, G-M, N-T, U-Z are non-empty, pairwise disjoint and    *)
(* their union is the 26 letters; and it is the table of find_pattern,     *)
(* label by label in the same order.                                       *)
(***************************************************************************)
C9_Partition ==
    /\ [i \in 1..Len(char_sets) |-> char_sets[i].name] =
          << <<"A", "-", "F">>, <<"G", "-", "M">>, <<"N", "-", "T">>,
             <<"U", "-", "Z">> >>
    /\ \A i \in 1..Len(char_sets) : char_sets[i].chars # {}
    /\ \A i, j \in 1..Len(char_sets) :
          i # j => char_sets[i].chars \cap char_sets[j].chars = {}
    /\ UNION {char_sets[i].chars : i \in 1..Len(char_sets)} = Letters
    /\ Cardinality(Letters) = 26
    /\ char_sets = sets

\* both tables were used: find_matches returned words for a pattern that
\* find_pattern gives for a word
C9_Witness ==
    /\ FoundOk
    /\ op.value # <<>>
    /\ \E word \in Words : word # <<>> /\ find_pattern(word).value = op.text

(***************************************************************************)
(* C10: after a load with minimum length k no bucket is keyed below k, no  *)
(* bucket holds a word shorter than k, and every word of the source of     *)
(* length k or more is in the bucket keyed by its length.                  *)
(***************************************************************************)
C10_MinimumLength ==
    LoadedOk =>
        \A k \in op.min_length :
            /\ \A n \in DOMAIN words_by_length :
                  n >= k /\ \A w \in Range(words_by_length[n]) : Len(w) >= k
            /\ \A w \in Range(WordsOf(ResolveFile(op.file))) :
                  Len(w) >= k => w \in Range(Bucket(words_by_length, Len(w)))

\* a load with minimum length 2 of a source that holds a word of length 1
\* and a word of length 2, into a lexicon that had a bucket of length 1
C10_Witness ==
    /\ LoadedOk
    /\ op.min_length = {2}
    /\ \E v, w \in Range(WordsOf(ResolveFile(op.file))) : Len(v) = 1 /\ Len(w) = 2
    /\ Bucket(op.before, 1) # <<>>
    /\ Bucket(words_by_length, 2) # <<>>

(***************************************************************************)
(* C11: blank lines are skipped by a load: after preprocess_words, with or *)
(* without a minimum length, no bucket holds a word of length zero and     *)
(* there is no bucket for length 0, so find_matches on the empty pattern   *)
(* returns the empty list.                                                 *)
(***************************************************************************)
C11_BlankLinesSkipped ==
    /\ LoadedOk =>
          /\ 0 \notin DOMAIN words_by_length
          /\ \A n \in DOMAIN words_by_length :
                \A w \in Range(words_by_length[n]) : w # <<>>
    /\ (FoundOk /\ Split(op.text) = <<>>) => op.value = <<>>

\* what find_matches gives for the pattern string on the bucket map d
ResultOn(d, pattern_str) ==
    LET r == find_matches(char_sets, d, pattern_str)
    IN  [status |-> r.status, value |-> r.value]

(***************************************************************************)
(* C12: a find_matches call that runs while a preprocess_words call of     *)
(* another thread loads the same lexicon sees the whole bucket map of      *)
(* before the load or the whole bucket map of after it: what it returns is *)
(* what it would return on one of those two maps, never something computed *)
(* from an emptied or partly refilled bucket.                              *)
(***************************************************************************)
C12_SnapshotRead ==
    (finder.pc = "done" /\ loaders[1].pc # "idle" /\ loaders[2].pc = "idle") =>
        \E d \in {l.d : l \in loaded}
                \cup {BucketsOf(file, loaders[1].min_length) :
                        file \in loaders[1].file} :
            [status |-> finder.status, value |-> finder.matches]
                = ResultOn(d, finder.text)

(***************************************************************************)
(* C13: load is exclusive: when two preprocess_words calls on the same     *)
(* lexicon overlap in time their bucket writes do not interleave, so once  *)
(* both have returned the bucket map is the map one of the two loads gives *)
(* when run alone, never a mixture with words of both sources or a word    *)
(* twice.                                                                  *)
(***************************************************************************)
C13_ExclusiveLoad ==
    (finder.pc = "idle" /\ \A t \in Loaders : loaders[t].pc = "done") =>
        \E t \in Loaders : \E file \in loaders[t].file :
            words_by_length = BucketsOf(file, loaders[t].min_length)

(***************************************************************************)
(* C14: matching has no effect on the lexicon: a find_matches or           *)
(* parse_pattern call, successful or not, leaves the bucket map as it was  *)
(* (the same length keys, the same bucket contents); a search for a length *)
(* nothing was loaded for creates no bucket.                               *)
(***************************************************************************)
C14_MatchingIsPure ==
    op.name \in {"find_matches", "parse_pattern"}
        => words_by_length = op.before

(***************************************************************************)
(* C15: parse_pattern returns one letter set per whitespace-separated      *)
(* token, in token order, each the class whose label is the uppercased,    *)
(* trimmed token: a pattern string in lower or mixed case compiles to the  *)
(* letter sets of the same string in upper case, and the empty string to   *)
(* the empty list.                                                         *)
(***************************************************************************)
C15_ParseUppercases ==
    op.name = "parse_pattern" =>
        LET tokens == Split(op.text)
            labels == [i \in 1..Len(tokens) |-> Upper(Strip(tokens[i]))]
        IN  (\A i \in 1..Len(tokens) : HasKey(char_sets, labels[i]))
                => /\ op.status = "ok"
                   /\ op.value =
                         [i \in 1..Len(tokens) |-> Lookup(char_sets, labels[i])]

====
